---- MODULE Spec2Model ----
(***************************************************************************)
(* A model of the two ChatAgent classes of ai-group-chats:                 *)
(*   groups_in_multiple_rooms_with_ai/chat_agent.py  (variant = "multi")   *)
(*   group_in_one_root_with_ai/chat_agent.py         (variant = "single")  *)
(* Texts are sequences of one-character strings, so that the regular       *)
(* expression search, str.find, str.strip and the "in" test of the         *)
(* reasoning cleaner are computed character by character.                  *)
(***************************************************************************)
EXTENDS Integers, Sequences, FiniteSets, TLC

\* Bound of the model: the longest history the model lets the agent build.
MaxHistory == 7

\* Bound of the model: the largest number of start_conversation calls.
MaxConversations == 2

\* Bound of the cleaner specification: the largest number of fragments a raw
\* reasoning text is put together from.
MaxPieces == 3

(***************************************************************************)
(* Python values                                                           *)
(***************************************************************************)

\* Python's None for an Optional[str] field; no text of the model equals it
\* (a text is a sequence of characters, or of characters and whole names and
\* fixed phrases, none of which is "None").
None == <<"None">>

\* None for the Optional[int] current_conversation_id; the ids are positive.
NoConversationId == 0

\* None for agent_executor, and for the records of the model that are not
\* there yet.
Nothing == [none |-> TRUE]

\* bool(x) of an Optional[str]: None and "" are falsy.
Truthy(s) == s # None /\ s # <<>>

\* The characters str.strip() removes and \s matches.
Whitespace == {" ", "\n"}

\* str.lower() on the letters of the marker, as re.IGNORECASE compares them.
Lower(c) ==
    CASE c = "P" -> "p"
      [] c = "H" -> "h"
      [] c = "A" -> "a"
      [] c = "S" -> "s"
      [] c = "E" -> "e"
      [] OTHER -> c

\* s[:n]
Take(s, n) == SubSeq(s, 1, n)

\* Whether p occurs in s at the 0-based position i.
OccursAt(s, p, i) ==
    /\ i >= 0
    /\ i + Len(p) <= Len(s)
    /\ \A k \in 1..Len(p) : s[i + k] = p[k]

\* s.find(p): the 0-based position of the first occurrence of p in s, or -1.
Find(s, p) ==
    LET hits == {i \in 0..Len(s) : OccursAt(s, p, i)}
    IN  IF hits = {} THEN -1 ELSE CHOOSE i \in hits : \A j \in hits : i <= j

\* p in s
Contains(s, p) == Find(s, p) >= 0

\* s.strip()
Strip(s) ==
    LET keep == {i \in 1..Len(s) : s[i] \notin Whitespace}
    IN  IF keep = {} THEN <<>>
        ELSE LET lo == CHOOSE i \in keep : \A j \in keep : i <= j
                 hi == CHOOSE i \in keep : \A j \in keep : i >= j
             IN  SubSeq(s, lo, hi)

(***************************************************************************)
(* The reasoning cleaner of the multi-room agent                           *)
(***************************************************************************)

\* The letters of the marker word, as the patterns spell them.
PhaseWord == <<"P", "h", "a", "s", "e">>
PHASEWORD == <<"P", "H", "A", "S", "E">>

\* phase2_patterns: each pattern is the word, what may stand between the word
\* and the digit ("space": exactly one blank; "spaces": \s*), and the digit.
\* The trailing [:\s\-]* matches the empty text, so it never decides whether
\* or where a pattern matches.
phase2_patterns ==
    << [word |-> PhaseWord, gap |-> "space"],
       [word |-> PHASEWORD, gap |-> "space"],
       [word |-> PhaseWord, gap |-> "spaces"] >>

\* Whether the pattern matches s from the 0-based position i on, under
\* re.IGNORECASE.
MatchesAt(pattern, s, i) ==
    LET w == pattern.word
        n == Len(w)
    IN  /\ i + n <= Len(s)
        /\ \A k \in 1..n : Lower(s[i + k]) = Lower(w[k])
        /\ IF pattern.gap = "space"
           THEN /\ i + n + 2 <= Len(s)
                /\ s[i + n + 1] = " "
                /\ s[i + n + 2] = "2"
           ELSE \E g \in 0..(Len(s) - i - n - 1) :
                    /\ \A k \in 1..g : s[i + n + k] \in Whitespace
                    /\ s[i + n + g + 1] = "2"

\* re.search(pattern, s, re.IGNORECASE): match.start() of the leftmost match,
\* or -1 when there is no match.
Search(pattern, s) ==
    LET hits == {i \in 0..Len(s) : MatchesAt(pattern, s, i)}
    IN  IF hits = {} THEN -1 ELSE CHOOSE i \in hits : \A j \in hits : i <= j

\* The loop over phase2_patterns: the first pattern of the list that matches
\* cuts the text at its match and ends the loop.
RECURSIVE CutPhase2(_, _)
CutPhase2(thoughts_cleaned, n) ==
    IF n > Len(phase2_patterns) THEN thoughts_cleaned
    ELSE LET start == Search(phase2_patterns[n], thoughts_cleaned)
         IN  IF start >= 0 THEN Strip(Take(thoughts_cleaned, start))
             ELSE CutPhase2(thoughts_cleaned, n + 1)

\* The removal of the response text from the thoughts.
CutResponse(thoughts_cleaned, pending) ==
    IF Truthy(pending) /\ Contains(thoughts_cleaned, pending)
    THEN LET response_start == Find(thoughts_cleaned, pending)
         IN  IF response_start > 0
             THEN Strip(Take(thoughts_cleaned, response_start))
             ELSE thoughts_cleaned
    ELSE thoughts_cleaned

\* thoughts_cleaned of one AIMessage content, given _pending_message.
CleanThoughts(thoughts, pending) == CutResponse(CutPhase2(thoughts, 1), pending)

(***************************************************************************)
(* Inputs of the model                                                     *)
(***************************************************************************)

\* The lists set_all_persons is called with.
PersonLists == { <<"Alice", "Bob">> }

\* The conversations start_conversation is called with: one with every
\* person, one with Bob alone, one with no participant.  Before
\* set_all_persons is called no participant is a registered person.
Conversations ==
    { [conversation_id |-> 1, participants |-> <<"Alice", "Bob">>],
      [conversation_id |-> 2, participants |-> <<"Bob">>],
      [conversation_id |-> 3, participants |-> <<>>] }

\* The member lists set_group_members is called with.
MemberLists == { <<"Alice", "Bob">> }

\* who_says and message of a listen call.
Speakers == {"Alice"}
UserTexts == { <<"h", "i">> }

\* The texts the backend passes to the say tool; the empty text is one.
SayTexts == { <<>>, <<"h", "m">>, <<"o", "k">> }

\* The contents of the AIMessages the backend generates: none, and a
\* reasoning text that begins with one of the say texts and ends with another.
Contents == { <<>>, <<"h", "m", " ", "o", "k">> }

(***************************************************************************)
(* Messages                                                                *)
(***************************************************************************)

SystemMessage(content) == [type |-> "system", content |-> content, tool_calls |-> <<>>]
HumanMessage(content) == [type |-> "human", content |-> content, tool_calls |-> <<>>]
AIMessage(content, tool_calls) == [type |-> "ai", content |-> content, tool_calls |-> tool_calls]
ToolMessage(content) == [type |-> "tool", content |-> content, tool_calls |-> <<>>]

\* ', '.join(names), each name one element of the text.
RECURSIVE Join(_)
Join(names) ==
    IF names = <<>> THEN <<>>
    ELSE IF Len(names) = 1 THEN names
    ELSE <<Head(names), ",", " ">> \o Join(Tail(names))

\* A context_msg that names the conversation but not who is in it.
ContextMsgWithoutParticipants(conversation_id, participants) ==
    <<"\n", "====", "\n", "Conversation #", ToString(conversation_id), " started",
      "\n", "====">>

\* context_msg of start_conversation; the rule of 60 '=' is one element.
ContextMsg(conversation_id, participants) ==
    <<"\n", "====", "\n", "Conversation #", ToString(conversation_id), " started", "\n", "Participants: ">>
        \o Join(participants) \o <<"\n", "====">>

\* conversation_message of listen: f"{who_says}: {message}".
ConversationMessage(who_says, message) == <<who_says, ":", " ">> \o message

(***************************************************************************)
(* State                                                                   *)
(***************************************************************************)

VARIABLES
    variant,                  \* which ChatAgent class the object is of
    say_callback,             \* TRUE when a callback is set (None otherwise)
    thoughts_callback,        \* TRUE when a callback is set (None otherwise)
    agent_said_something,
    pending_message,          \* _pending_message
    all_persons,
    current_conversation_id,
    current_participants,
    global_message_history,
    group_members,            \* single-room agent
    message_history,          \* single-room agent
    agent_executor,           \* None, or the agent with its system prompt
    pc,                       \* "idle", or "awaiting" inside agent_executor.invoke
    invoke_input,             \* the messages the running invoke was called with
    generated,                \* the entries the running invoke has produced
    sink_log,                 \* the callback calls of the current turn, in order
    turn,                     \* observations of the current turn
    last_start,               \* the arguments of the latest start_conversation
    data,                     \* run of main.py: the loaded conversation file
    run_pc,                   \* run: the statement the driver is at
    conv_idx,                 \* run: the conversation the outer loop is at
    msg_idx,                  \* run: the message the inner loop is at
    agent_spoke,              \* run: the flag the driver's say_callback sets
    run_log,                  \* run: what the driver reported, in order
    twin                      \* twin run: the record of the two agents' turns

vars == << variant, say_callback, thoughts_callback, agent_said_something,
           pending_message, all_persons, current_conversation_id,
           current_participants, global_message_history, group_members,
           message_history, agent_executor, pc, invoke_input, generated,
           sink_log, turn, last_start, data, run_pc, conv_idx, msg_idx,
           agent_spoke, run_log, twin >>

agentVars == << all_persons, current_conversation_id, current_participants,
                group_members, agent_executor, last_start >>

callbackVars == << say_callback, thoughts_callback >>

turnVars == << agent_said_something, pending_message, pc, invoke_input,
               generated, sink_log, turn >>

historyVars == << global_message_history, message_history >>

runVars == << data, run_pc, conv_idx, msg_idx, agent_spoke, run_log, twin >>

\* The history of the agent at hand.
History == IF variant = "multi" THEN global_message_history ELSE message_history

\* The number of conversations started so far: each start_conversation
\* appends one SystemMessage, and nothing else does.
ConversationsStarted ==
    Cardinality({i \in 1..Len(global_message_history) :
                     global_message_history[i].type = "system"})

(***************************************************************************)
(* System prompts                                                          *)
(***************************************************************************)

\* p in names
InList(p, names) == \E i \in 1..Len(names) : names[i] = p

\* A filter that keeps the persons that are present.
AbsentKeepsPresent(persons, participants) ==
    SelectSeq(persons, LAMBDA p : InList(p, participants))

\* absent = [p for p in self.all_persons if p not in self.current_participants]
Absent(persons, participants) ==
    SelectSeq(persons, LAMBDA p : ~InList(p, participants))

\* _get_system_prompt of the multi-room agent: the two computed parts of the
\* prompt; the fixed text of the prompt is left out.
GetSystemPrompt(persons, participants) ==
    LET all_persons_text ==
            IF persons # <<>>
            THEN <<"All persons across all conversations:">> \o persons
            ELSE <<>>
        absent == Absent(persons, participants)
        current_participants_text ==
            IF participants # <<>>
            THEN <<"Current conversation participants:">> \o participants
                   \o (IF absent # <<>>
                       THEN <<"NOT in this conversation:">> \o absent
                       ELSE <<>>)
            ELSE <<>>
    IN  [ all_persons_info |-> all_persons_text,
          current_participants_info |-> current_participants_text ]

\* _get_system_prompt of the single-room agent.
GetSystemPromptSingle(members) ==
    [ members_info |-> IF members # <<>>
                       THEN <<"Group members in this conversation:">> \o members
                       ELSE <<>> ]

\* create_agent(self.llm, self.tools, system_prompt=...)
CreateAgent(system_prompt) == [system_prompt |-> system_prompt]

(***************************************************************************)
(* Construction                                                            *)
(***************************************************************************)

NoTurn ==
    [ before |-> <<>>, user |-> Nothing, spoken |-> <<>>, new_messages |-> <<>>,
      outcome |-> "none" ]

\* The state of a ChatAgent after __init__.
InitAgent ==
    /\ variant \in {"multi", "single"}
    /\ say_callback = FALSE
    /\ thoughts_callback = FALSE
    /\ agent_said_something = FALSE
    /\ pending_message = None
    /\ all_persons = <<>>
    /\ current_conversation_id = NoConversationId
    /\ current_participants = <<>>
    /\ global_message_history = <<>>
    /\ group_members = <<>>
    /\ message_history = <<>>
    /\ agent_executor = IF variant = "multi" THEN Nothing
                        ELSE CreateAgent(GetSystemPromptSingle(<<>>))
    /\ pc = "idle"
    /\ invoke_input = <<>>
    /\ generated = <<>>
    /\ sink_log = <<>>
    /\ turn = NoTurn
    /\ last_start = Nothing

\* No twin run: one agent is used alone.
NoTwin == [phase |-> "none", script |-> <<>>, multi |-> <<>>, single |-> <<>>]

\* No conversation file: the agent is used through its methods alone.
NoData == [all_persons |-> <<>>, show_thoughts |-> FALSE, conversations |-> <<>>]

Init ==
    /\ InitAgent
    /\ data = NoData
    /\ run_pc = "none"
    /\ conv_idx = 0
    /\ msg_idx = 0
    /\ agent_spoke = FALSE
    /\ run_log = <<>>
    /\ twin = NoTwin

(***************************************************************************)
(* Operations of the agents                                                *)
(***************************************************************************)

set_say_callback ==
    /\ pc = "idle"
    /\ say_callback' = TRUE
    /\ UNCHANGED << variant, thoughts_callback, agentVars, turnVars, historyVars >>

set_thoughts_callback ==
    /\ pc = "idle"
    /\ thoughts_callback' = TRUE
    /\ UNCHANGED << variant, say_callback, agentVars, turnVars, historyVars >>

set_all_persons(persons) ==
    /\ pc = "idle"
    /\ variant = "multi"
    /\ all_persons' = persons
    /\ UNCHANGED << variant, callbackVars, turnVars, historyVars,
                    current_conversation_id, current_participants,
                    group_members, agent_executor, last_start >>

\* A start_conversation that begins the history of the conversation afresh.
start_conversation_resets(conversation_id, participants) ==
    /\ pc = "idle"
    /\ variant = "multi"
    /\ Len(global_message_history) < MaxHistory
    /\ ConversationsStarted < MaxConversations
    /\ current_conversation_id' = conversation_id
    /\ current_participants' = participants
    /\ global_message_history' =
           << SystemMessage(ContextMsg(conversation_id, participants)) >>
    /\ agent_executor' = CreateAgent(GetSystemPrompt(all_persons, participants))
    /\ last_start' = [conversation_id |-> conversation_id, participants |-> participants]
    /\ UNCHANGED << variant, callbackVars, turnVars, all_persons, group_members,
                    message_history >>

start_conversation(conversation_id, participants) ==
    /\ pc = "idle"
    /\ variant = "multi"
    /\ Len(global_message_history) < MaxHistory
    /\ ConversationsStarted < MaxConversations
    /\ current_conversation_id' = conversation_id
    /\ current_participants' = participants
    /\ global_message_history' =
           Append(global_message_history,
                  SystemMessage(ContextMsg(conversation_id, participants)))
    /\ agent_executor' = CreateAgent(GetSystemPrompt(all_persons, participants))
    /\ last_start' = [conversation_id |-> conversation_id, participants |-> participants]
    /\ UNCHANGED << variant, callbackVars, turnVars, all_persons, group_members,
                    message_history >>

set_group_members(members) ==
    /\ pc = "idle"
    /\ variant = "single"
    /\ group_members' = members
    /\ agent_executor' = CreateAgent(GetSystemPromptSingle(members))
    /\ UNCHANGED << variant, callbackVars, turnVars, historyVars, all_persons,
                    current_conversation_id, current_participants, last_start >>

\* The say tool: it stores the message and sets the flag.
say(message) ==
    /\ pending_message' = message
    /\ agent_said_something' = TRUE

\* self.global_message_history.append(m) / self.message_history.append(m)
AppendHistory(m) ==
    IF variant = "multi"
    THEN /\ global_message_history' = Append(global_message_history, m)
         /\ UNCHANGED message_history
    ELSE /\ message_history' = Append(message_history, m)
         /\ UNCHANGED global_message_history

\* A listen that assigns the new messages to the history.
ExtendHistoryAssigns(ms) ==
    IF variant = "multi"
    THEN /\ global_message_history' = ms
         /\ UNCHANGED message_history
    ELSE /\ message_history' = ms
         /\ UNCHANGED global_message_history

\* A single-room listen that keeps the generated messages and not the tool
\* results.
ExtendHistorySingleDropsTools(ms) ==
    IF variant = "multi"
    THEN /\ global_message_history' = global_message_history \o ms
         /\ UNCHANGED message_history
    ELSE /\ message_history' =
                message_history \o SelectSeq(ms, LAMBDA m : m.type # "tool")
         /\ UNCHANGED global_message_history

\* self.global_message_history.extend(ms) / self.message_history.extend(ms)
ExtendHistory(ms) ==
    IF variant = "multi"
    THEN /\ global_message_history' = global_message_history \o ms
         /\ UNCHANGED message_history
    ELSE /\ message_history' = message_history \o ms
         /\ UNCHANGED global_message_history

\* A listen that resets the flag and leaves the pending message.
ResetFlagsKeepPending ==
    /\ agent_said_something' = FALSE
    /\ UNCHANGED pending_message

\* The reset at the head of listen.
ResetFlags ==
    /\ agent_said_something' = FALSE
    /\ pending_message' = None

\* A listen that builds the agent anew for every message.
ListenBeginRecreates(who_says, message) ==
    /\ pc = "idle"
    /\ Len(History) + 1 < MaxHistory
    /\ ResetFlags
    /\ AppendHistory(HumanMessage(ConversationMessage(who_says, message)))
    /\ pc' = "awaiting"
    /\ invoke_input' =
           Append(History, HumanMessage(ConversationMessage(who_says, message)))
    /\ generated' = <<>>
    /\ sink_log' = <<>>
    /\ turn' = [ before |-> History,
                 user |-> HumanMessage(ConversationMessage(who_says, message)),
                 spoken |-> <<>>, new_messages |-> <<>>, outcome |-> "none" ]
    /\ agent_executor' =
           IF variant = "multi"
           THEN CreateAgent(GetSystemPrompt(all_persons, current_participants))
           ELSE CreateAgent(GetSystemPromptSingle(group_members))
    /\ UNCHANGED << variant, callbackVars, all_persons, current_conversation_id,
                    current_participants, group_members, last_start >>

\* listen, up to the call of agent_executor.invoke: the flags are reset, the
\* message is appended and invoke is called with the whole history.
ListenBegin(who_says, message) ==
    /\ pc = "idle"
    /\ Len(History) + 1 < MaxHistory
    /\ ResetFlags
    /\ AppendHistory(HumanMessage(ConversationMessage(who_says, message)))
    /\ pc' = "awaiting"
    /\ invoke_input' =
           Append(History, HumanMessage(ConversationMessage(who_says, message)))
    /\ generated' = <<>>
    /\ sink_log' = <<>>
    /\ turn' = [ before |-> History,
                 user |-> HumanMessage(ConversationMessage(who_says, message)),
                 spoken |-> <<>>, new_messages |-> <<>>, outcome |-> "none" ]
    /\ UNCHANGED << variant, callbackVars, agentVars >>

\* A say tool that calls say_callback itself, while invoke is running.
AgentCallsSayAndDisplays(content, message) ==
    /\ pc = "awaiting"
    /\ agent_executor # Nothing
    /\ Len(History) + Len(generated) + 2 < MaxHistory
    /\ say(message)
    /\ generated' = generated \o
           << AIMessage(content, <<message>>),
              ToolMessage(<<"Message sent successfully">>) >>
    /\ turn' = [turn EXCEPT !.spoken = Append(@, message)]
    /\ sink_log' = IF say_callback THEN Append(sink_log, [sink |-> "say", text |-> message])
                   ELSE sink_log
    /\ UNCHANGED << variant, callbackVars, agentVars, historyVars, pc,
                    invoke_input >>

\* One round of the agent loop inside invoke: the model answers with an
\* AIMessage that calls the say tool, and the tool runs.
AgentCallsSay(content, message) ==
    /\ pc = "awaiting"
    /\ agent_executor # Nothing
    /\ Len(History) + Len(generated) + 2 < MaxHistory
    /\ say(message)
    /\ generated' = generated \o
           << AIMessage(content, <<message>>),
              ToolMessage(<<"Message sent successfully">>) >>
    /\ turn' = [turn EXCEPT !.spoken = Append(@, message)]
    /\ UNCHANGED << variant, callbackVars, agentVars, historyVars, pc,
                    invoke_input, sink_log >>

\* A thoughts loop without the isinstance test: every entry with content.
ReasoningContentsOfAll(new_messages) ==
    LET bearing == SelectSeq(new_messages, LAMBDA msg : msg.content # <<>>)
    IN  [i \in 1..Len(bearing) |-> bearing[i].content]

\* The contents of the reasoning-bearing entries of new_messages, in order:
\* msg.content for every msg with isinstance(msg, AIMessage) and msg.content.
ReasoningContents(new_messages) ==
    LET bearing == SelectSeq(new_messages,
                             LAMBDA msg : msg.type = "ai" /\ msg.content # <<>>)
    IN  [i \in 1..Len(bearing) |-> bearing[i].content]

\* The texts the thoughts loop of the multi-room listen passes to
\* thoughts_callback: each content cleaned, those with nothing left skipped.
ThoughtsMulti(new_messages, pending) ==
    LET raw == ReasoningContents(new_messages)
        cleaned == [i \in 1..Len(raw) |-> CleanThoughts(raw[i], pending)]
    IN  SelectSeq(cleaned, LAMBDA thoughts_cleaned : thoughts_cleaned # <<>>)

\* The texts the thoughts loop of the single-room listen passes to
\* thoughts_callback.
ThoughtsSingle(new_messages) == ReasoningContents(new_messages)

ThoughtsCall(text) == [sink |-> "thoughts", text |-> text]
SayCall(text) == [sink |-> "say", text |-> text]

\* FIRST: the calls of thoughts_callback, when one is set.
ThoughtsCalls(new_messages, pending) ==
    IF thoughts_callback
    THEN LET texts == IF variant = "multi"
                      THEN ThoughtsMulti(new_messages, pending)
                      ELSE ThoughtsSingle(new_messages)
         IN  [i \in 1..Len(texts) |-> ThoughtsCall(texts[i])]
    ELSE <<>>

\* SECOND: the call of say_callback, when the agent decided to speak.
SayCalls(pending) ==
    IF Truthy(pending) /\ say_callback THEN <<SayCall(pending)>> ELSE <<>>

\* A listen that displays the message before the thoughts.
SinkCallsSayFirst(new_messages, pending) ==
    SayCalls(pending) \o ThoughtsCalls(new_messages, pending)

\* The callback calls of listen after invoke has returned, in program order.
SinkCalls(new_messages, pending) ==
    ThoughtsCalls(new_messages, pending) \o SayCalls(pending)

\* A slice that begins one entry late.
NewMessagesSkipsOne(result, history) ==
    SubSeq(result.messages, Len(history) + 2, Len(result.messages))

\* new_messages = result["messages"][len(history):]
NewMessages(result, history) ==
    SubSeq(result.messages, Len(history) + 1, Len(result.messages))

\* A listen whose except clause still extends the history with new_messages.
GenerationReturnsKeepsEntries(content) ==
    /\ pc = "awaiting"
    /\ agent_executor # Nothing
    /\ Len(History) + Len(generated) < MaxHistory
    /\ LET result == [messages |->
                          invoke_input \o generated \o <<AIMessage(content, <<>>)>>]
           new_messages == NewMessages(result, History)
           calls == SinkCalls(new_messages, pending_message)
       IN  \E raised \in 0..Len(calls) :
               /\ sink_log' = IF raised = 0 THEN calls ELSE Take(calls, raised)
               /\ ExtendHistory(new_messages)
               /\ turn' = [turn EXCEPT !.new_messages = new_messages,
                                       !.outcome = IF raised = 0 THEN "returned"
                                                   ELSE "callback_failed"]
    /\ pc' = "idle"
    /\ generated' = <<>>
    /\ UNCHANGED << variant, callbackVars, agentVars, agent_said_something,
                    pending_message, invoke_input >>

\* invoke returns its result, the input followed by the generated entries and
\* the closing AIMessage (one without tool calls), and listen runs to its
\* end: new_messages is cut out, the callbacks are called and the history is
\* extended.  A callback may raise: raised = k > 0 says the k-th call does,
\* and the except clause then ends the turn.
GenerationReturns(content) ==
    /\ pc = "awaiting"
    /\ agent_executor # Nothing
    /\ Len(History) + Len(generated) < MaxHistory
    /\ LET result == [messages |->
                          invoke_input \o generated \o <<AIMessage(content, <<>>)>>]
           new_messages == NewMessages(result, History)
           calls == SinkCalls(new_messages, pending_message)
       IN  \E raised \in 0..Len(calls) :
               IF raised = 0
               THEN /\ sink_log' = calls
                    /\ ExtendHistory(new_messages)
                    /\ turn' = [turn EXCEPT !.new_messages = new_messages,
                                            !.outcome = "returned"]
               ELSE /\ sink_log' = Take(calls, raised)
                    /\ UNCHANGED historyVars
                    /\ turn' = [turn EXCEPT !.new_messages = new_messages,
                                            !.outcome = "callback_failed"]
    /\ pc' = "idle"
    /\ generated' = <<>>
    /\ UNCHANGED << variant, callbackVars, agentVars, agent_said_something,
                    pending_message, invoke_input >>

\* invoke returns a result without "messages": listen does nothing more.
GenerationReturnsNoMessages ==
    /\ pc = "awaiting"
    /\ agent_executor # Nothing
    /\ pc' = "idle"
    /\ generated' = <<>>
    /\ turn' = [turn EXCEPT !.outcome = "no_messages"]
    /\ UNCHANGED << variant, callbackVars, agentVars, historyVars,
                    agent_said_something, pending_message, invoke_input, sink_log >>

\* An except clause that still displays the pending message.
GenerationRaisesThenSays ==
    /\ pc = "awaiting"
    /\ pc' = "idle"
    /\ generated' = <<>>
    /\ sink_log' = SayCalls(pending_message)
    /\ turn' = [turn EXCEPT !.outcome = "generation_failed"]
    /\ UNCHANGED << variant, callbackVars, agentVars, historyVars,
                    agent_said_something, pending_message, invoke_input >>

\* invoke raises, or there is no agent_executor to call invoke on and the
\* call itself raises: the except clause prints the error and listen returns.
GenerationRaises ==
    /\ pc = "awaiting"
    /\ pc' = "idle"
    /\ generated' = <<>>
    /\ turn' = [turn EXCEPT !.outcome = "generation_failed"]
    /\ UNCHANGED << variant, callbackVars, agentVars, historyVars,
                    agent_said_something, pending_message, invoke_input, sink_log >>

Next ==
    \/ set_say_callback /\ UNCHANGED runVars
    \/ set_thoughts_callback /\ UNCHANGED runVars
    \/ \E persons \in PersonLists : set_all_persons(persons) /\ UNCHANGED runVars
    \/ \E c \in Conversations :
           start_conversation(c.conversation_id, c.participants) /\ UNCHANGED runVars
    \/ \E members \in MemberLists : set_group_members(members) /\ UNCHANGED runVars
    \/ \E who_says \in Speakers, message \in UserTexts :
           ListenBegin(who_says, message) /\ UNCHANGED runVars
    \/ \E content \in Contents, message \in SayTexts :
           AgentCallsSay(content, message) /\ UNCHANGED runVars
    \/ \E content \in Contents : GenerationReturns(content) /\ UNCHANGED runVars
    \/ GenerationReturnsNoMessages /\ UNCHANGED runVars
    \/ GenerationRaises /\ UNCHANGED runVars

Spec == Init /\ [][Next]_vars

(***************************************************************************)
(* The driver: run of main.py on a conversation file                       *)
(***************************************************************************)

\* An entry of "conversations" and an entry of its "messages"; keys are the
\* fields the entry has, and a field that is not among them is never read.
Conversation(keys, conversation_id, participants, messages) ==
    [ keys |-> keys, conversation_id |-> conversation_id,
      participants |-> participants, messages |-> messages ]

Message(keys, member, message) ==
    [ keys |-> keys, member |-> member, message |-> message ]

ConversationKeys == {"conversation_id", "participants", "messages"}
MessageKeys == {"member", "message"}

\* The test of line 312: the conversation is processed, not skipped.
ValidConversation(conversation) ==
    "participants" \in conversation.keys /\ "messages" \in conversation.keys

\* A test that asks for the text of the message only.
ValidMessageWithoutMember(msg) == "message" \in msg.keys

\* The test of line 341: the message is processed, not skipped.
ValidMessage(msg) == "member" \in msg.keys /\ "message" \in msg.keys

\* conv_id of run: conversation.get("conversation_id", conv_idx).
ConvId(conversation, idx) ==
    IF "conversation_id" \in conversation.keys THEN conversation.conversation_id
    ELSE idx

\* The history entries the messages from index first on need at least: the
\* user's message and the closing entry of the generation, for each valid one.
MessagesNeed(messages, first) ==
    2 * Cardinality({i \in first..Len(messages) : ValidMessage(messages[i])})

\* The same for the conversations from index first on, each valid one with
\* its boundary entry.
RECURSIVE ConversationsNeed(_, _)
ConversationsNeed(conversations, first) ==
    IF first > Len(conversations) THEN 0
    ELSE (IF ValidConversation(conversations[first])
          THEN 1 + MessagesNeed(conversations[first].messages, 1)
          ELSE 0)
         + ConversationsNeed(conversations, first + 1)

\* Conversation files: two messages in one conversation, with thoughts shown;
\* two conversations of one message; a file with an entry of each malformed
\* kind and a conversation without an id; two conversations of three messages.
CandidateFiles ==
    { [ all_persons |-> <<"Alice", "Bob">>, show_thoughts |-> TRUE,
        conversations |->
          << Conversation(ConversationKeys, 1, <<"Alice", "Bob">>,
                 << Message(MessageKeys, "Alice", <<"h", "i">>),
                    Message(MessageKeys, "Bob", <<"h", "i">>) >>) >> ],
      [ all_persons |-> <<"Alice", "Bob">>, show_thoughts |-> FALSE,
        conversations |->
          << Conversation(ConversationKeys, 1, <<"Alice", "Bob">>,
                 << Message(MessageKeys, "Alice", <<"h", "i">>) >>),
             Conversation(ConversationKeys, 2, <<"Bob">>,
                 << Message(MessageKeys, "Bob", <<"h", "i">>) >>) >> ],
      [ all_persons |-> <<"Alice", "Bob">>, show_thoughts |-> TRUE,
        conversations |->
          << Conversation({"conversation_id", "messages"}, 1, <<>>,
                 << Message(MessageKeys, "Alice", <<"h", "i">>) >>),
             Conversation({"participants", "messages"}, 0, <<"Bob">>,
                 << Message({"message"}, "", <<"h", "i">>),
                    Message(MessageKeys, "Bob", <<"h", "i">>) >>) >> ],
      [ all_persons |-> <<"Alice", "Bob">>, show_thoughts |-> FALSE,
        conversations |->
          << Conversation(ConversationKeys, 1, <<"Alice", "Bob">>,
                 << Message(MessageKeys, "Alice", <<"h", "i">>),
                    Message(MessageKeys, "Bob", <<"h", "i">>) >>),
             Conversation(ConversationKeys, 2, <<"Bob">>,
                 << Message(MessageKeys, "Bob", <<"h", "i">>) >>) >> ] }

\* The files whose run fits the bounds of the model.
DataFiles ==
    { d \in CandidateFiles :
        /\ ConversationsNeed(d.conversations, 1) <= MaxHistory
        /\ Cardinality({i \in 1..Len(d.conversations) :
                            ValidConversation(d.conversations[i])})
               <= MaxConversations }

objectVars == << variant, callbackVars, agentVars, turnVars, historyVars >>

\* run, after the file is loaded and the agent is constructed.
InitRun ==
    /\ InitAgent
    /\ variant = "multi"
    /\ data \in DataFiles
    /\ run_pc = "set_all_persons"
    /\ conv_idx = 1
    /\ msg_idx = 0
    /\ agent_spoke = FALSE
    /\ run_log = <<>>
    /\ twin = NoTwin

\* agent.set_all_persons(all_persons), line 283.
RunSetAllPersons ==
    /\ run_pc = "set_all_persons"
    /\ set_all_persons(data.all_persons)
    /\ run_pc' = "set_say_callback"
    /\ UNCHANGED << twin, data, conv_idx, msg_idx, agent_spoke, run_log >>

\* agent.set_say_callback(say_callback), line 299.
RunSetSayCallback ==
    /\ run_pc = "set_say_callback"
    /\ set_say_callback
    /\ run_pc' = IF data.show_thoughts THEN "set_thoughts_callback"
                 ELSE "conversations"
    /\ UNCHANGED << twin, data, conv_idx, msg_idx, agent_spoke, run_log >>

\* agent.set_thoughts_callback(thoughts_callback), under show_thoughts.
RunSetThoughtsCallback ==
    /\ run_pc = "set_thoughts_callback"
    /\ set_thoughts_callback
    /\ run_pc' = "conversations"
    /\ UNCHANGED << twin, data, conv_idx, msg_idx, agent_spoke, run_log >>

\* What the driver reports, with the place in the file it is at.
RunReport(event, outcome) ==
    [ event |-> event, conversation |-> conv_idx, message |-> msg_idx,
      outcome |-> outcome ]

\* The outer loop meets a conversation without 'participants' or 'messages':
\* a warning, and the loop goes on.
RunSkipConversation ==
    /\ run_pc = "conversations"
    /\ conv_idx <= Len(data.conversations)
    /\ ~ValidConversation(data.conversations[conv_idx])
    /\ conv_idx' = conv_idx + 1
    /\ run_log' = Append(run_log, RunReport("skipped_conversation", "none"))
    /\ UNCHANGED << objectVars, twin, data, run_pc, msg_idx, agent_spoke >>

\* The outer loop meets a valid conversation: agent.start_conversation.
RunStartConversation ==
    /\ run_pc = "conversations"
    /\ conv_idx <= Len(data.conversations)
    /\ ValidConversation(data.conversations[conv_idx])
    /\ start_conversation(ConvId(data.conversations[conv_idx], conv_idx),
                          data.conversations[conv_idx].participants)
    /\ msg_idx' = 1
    /\ run_pc' = "messages"
    /\ UNCHANGED << twin, data, conv_idx, agent_spoke, run_log >>

\* The inner loop meets a message without 'member' or 'message'.
RunSkipMessage ==
    /\ run_pc = "messages"
    /\ msg_idx <= Len(data.conversations[conv_idx].messages)
    /\ ~ValidMessage(data.conversations[conv_idx].messages[msg_idx])
    /\ msg_idx' = msg_idx + 1
    /\ run_log' = Append(run_log, RunReport("skipped_message", "none"))
    /\ UNCHANGED << objectVars, twin, data, run_pc, conv_idx, agent_spoke >>

\* An inner loop that does not reset the flag before agent.listen.
RunListenKeepsFlag ==
    /\ run_pc = "messages"
    /\ msg_idx <= Len(data.conversations[conv_idx].messages)
    /\ ValidMessage(data.conversations[conv_idx].messages[msg_idx])
    /\ ListenBegin(data.conversations[conv_idx].messages[msg_idx].member,
                   data.conversations[conv_idx].messages[msg_idx].message)
    /\ run_pc' = "listening"
    /\ UNCHANGED << twin, data, conv_idx, msg_idx, agent_spoke, run_log >>

\* The inner loop meets a valid message: the flag is reset and agent.listen
\* is called.
RunListen ==
    /\ run_pc = "messages"
    /\ msg_idx <= Len(data.conversations[conv_idx].messages)
    /\ ValidMessage(data.conversations[conv_idx].messages[msg_idx])
    /\ ListenBegin(data.conversations[conv_idx].messages[msg_idx].member,
                   data.conversations[conv_idx].messages[msg_idx].message)
    /\ agent_spoke' = FALSE
    /\ run_pc' = "listening"
    /\ UNCHANGED << twin, data, conv_idx, msg_idx, run_log >>

\* The say tool runs inside the listen call of the driver.  The rounds of
\* the agent loop are unbounded; the model leaves the rest of the file the
\* history entries it needs.
RunAgentCallsSay(content, message) ==
    /\ run_pc = "listening"
    /\ Len(History) + Len(generated) + 2
           + MessagesNeed(data.conversations[conv_idx].messages, msg_idx + 1)
           + ConversationsNeed(data.conversations, conv_idx + 1) < MaxHistory
    /\ AgentCallsSay(content, message)
    /\ UNCHANGED runVars

\* A run that stops at the first turn in which say_callback was not called.
RunListenReturnsOrStops ==
    /\ agent_spoke' = (agent_spoke \/ \E i \in 1..Len(sink_log') : sink_log'[i].sink = "say")
    /\ run_log' = Append(run_log,
                         RunReport(IF agent_spoke' THEN "spoke" ELSE "silent",
                                   turn'.outcome))
    /\ msg_idx' = msg_idx + 1
    /\ run_pc' = IF agent_spoke' THEN "messages" ELSE "aborted"
    /\ UNCHANGED << twin, data, conv_idx >>

\* agent.listen returns to the driver: say_callback has set agent_spoke if it
\* was called, the flag is as RunListen left it if not, and the driver reports
\* a silent agent when the flag is not set.
RunListenReturns ==
    /\ agent_spoke' = (agent_spoke \/ \E i \in 1..Len(sink_log') : sink_log'[i].sink = "say")
    /\ run_log' = Append(run_log,
                         RunReport(IF agent_spoke' THEN "spoke" ELSE "silent",
                                   turn'.outcome))
    /\ msg_idx' = msg_idx + 1
    /\ run_pc' = "messages"
    /\ UNCHANGED << twin, data, conv_idx >>

RunGenerationReturns(content) ==
    /\ run_pc = "listening"
    /\ GenerationReturns(content)
    /\ RunListenReturns

RunGenerationReturnsNoMessages ==
    /\ run_pc = "listening"
    /\ GenerationReturnsNoMessages
    /\ RunListenReturns

RunGenerationRaises ==
    /\ run_pc = "listening"
    /\ GenerationRaises
    /\ RunListenReturns

\* The inner loop is through: the outer loop takes the next conversation.
RunEndConversation ==
    /\ run_pc = "messages"
    /\ msg_idx > Len(data.conversations[conv_idx].messages)
    /\ conv_idx' = conv_idx + 1
    /\ run_pc' = "conversations"
    /\ UNCHANGED << objectVars, twin, data, msg_idx, agent_spoke, run_log >>

\* The outer loop is through: "All conversations completed."
RunFinish ==
    /\ run_pc = "conversations"
    /\ conv_idx > Len(data.conversations)
    /\ run_pc' = "done"
    /\ run_log' = Append(run_log, RunReport("completed", "none"))
    /\ UNCHANGED << objectVars, twin, data, conv_idx, msg_idx, agent_spoke >>

\* The steps of the driver's own statements.
RunDriver ==
    \/ RunSetAllPersons
    \/ RunSetSayCallback
    \/ RunSetThoughtsCallback
    \/ RunSkipConversation
    \/ RunStartConversation
    \/ RunSkipMessage
    \/ RunListen
    \/ RunEndConversation
    \/ RunFinish

\* The steps in which the generation call of the running turn ends.
RunGenerationEnds ==
    \/ RunGenerationRaises
    \/ RunGenerationReturnsNoMessages
    \/ \E content \in Contents : RunGenerationReturns(content)

NextRun ==
    \/ RunDriver
    \/ \E content \in Contents, message \in SayTexts : RunAgentCallsSay(content, message)
    \/ RunGenerationEnds

\* The driver is a sequential program that runs on, and the generation call
\* of a turn returns or raises.
SpecRun ==
    /\ InitRun
    /\ [][NextRun]_vars
    /\ WF_vars(RunDriver)
    /\ WF_vars(RunGenerationEnds)

(***************************************************************************)
(* One turn of the multi-room agent on marker-bearing reasoning texts      *)
(***************************************************************************)

\* The fragments raw reasoning texts are put together from: two words (both
\* are say texts), a blank, and three spellings of the phase marker.
Fragments ==
    { <<"h", "m">>,
      <<"o", "k">>,
      <<" ">>,
      <<"P", "h", "a", "s", "e", " ", "2">>,
      <<"P", "H", "A", "S", "E", "2">>,
      <<"p", "h", "a", "s", "e", "\n", "2", ":">> }

\* The texts made of at most n fragments.
RECURSIVE TextsOf(_)
TextsOf(n) ==
    IF n = 0 THEN { <<>> }
    ELSE LET shorter == TextsOf(n - 1)
         IN  shorter \cup { t \o f : t \in shorter, f \in Fragments }

RawTexts == TextsOf(MaxPieces)

InitClean ==
    /\ Init
    /\ variant = "multi"

\* The agent is set up with one conversation and hears one message; the
\* backend calls say at most once and closes with any raw text.
NextClean ==
    \/ set_thoughts_callback /\ UNCHANGED runVars
    \/ /\ global_message_history = <<>>
       /\ start_conversation(1, <<"Alice", "Bob">>)
       /\ UNCHANGED runVars
    \/ /\ Len(global_message_history) = 1
       /\ ListenBegin("Alice", <<"h", "i">>)
       /\ UNCHANGED runVars
    \/ /\ turn.spoken = <<>>
       /\ \E message \in SayTexts : AgentCallsSay(<<>>, message)
       /\ UNCHANGED runVars
    \/ \E content \in RawTexts : GenerationReturns(content) /\ UNCHANGED runVars

SpecClean == InitClean /\ [][NextClean]_vars

(***************************************************************************)
(* Properties                                                              *)
(***************************************************************************)

\* The texts say_callback was called with in the current turn, in order.
SaidTexts(log) ==
    LET calls == SelectSeq(log, LAMBDA c : c.sink = "say")
    IN  [i \in 1..Len(calls) |-> calls[i].text]

\* The texts thoughts_callback was called with in the current turn, in order.
ThoughtTexts(log) ==
    LET calls == SelectSeq(log, LAMBDA c : c.sink = "thoughts")
    IN  [i \in 1..Len(calls) |-> calls[i].text]

\* s is a prefix of t.
IsPrefix(s, t) == Len(s) <= Len(t) /\ SubSeq(t, 1, Len(s)) = s

\* The step in which a listen call returns to its caller.
TurnEnds == pc = "awaiting" /\ pc' = "idle"

\* C1: within one turn every call of thoughts_callback comes before the call
\* of say_callback, in both agents, whatever the order in which the backend
\* produced its reasoning entries and called the say tool.
C1_ThoughtsBeforeSay ==
    \A i, j \in 1..Len(sink_log) :
        (sink_log[i].sink = "thoughts" /\ sink_log[j].sink = "say") => i < j

\* A turn of the multi-room agent in which the backend called say before it
\* produced a reasoning entry, and both callbacks were called.
C1_Witness ==
    /\ variant = "multi"
    /\ pc = "idle"
    /\ ThoughtTexts(sink_log) # <<>>
    /\ SaidTexts(sink_log) # <<>>
    /\ \E i, j \in 1..Len(turn.new_messages) :
           /\ i < j
           /\ turn.new_messages[i].tool_calls # <<>>
           /\ turn.new_messages[i].content = <<>>
           /\ turn.new_messages[j].type = "ai"
           /\ turn.new_messages[j].content # <<>>

\* C2: in a turn in which the backend called say N >= 1 times and invoke
\* returned its messages, say_callback is called exactly once, with the text
\* of the last say call, the empty text included.  (Stated for the turns of
\* the multi-room agent in which a say_callback is set and no callback
\* raises.)
C2_LastSayDelivered ==
    [][ (TurnEnds /\ turn'.outcome = "returned" /\ variant = "multi"
            /\ say_callback /\ turn.spoken # <<>>)
        => SaidTexts(sink_log') = << turn.spoken[Len(turn.spoken)] >> ]_vars

\* C3: in a turn in which the backend never calls say, say_callback is not
\* called and agent_said_something is false, also after a turn that did.
C3_SilentTurn ==
    turn.spoken = <<>> => (SaidTexts(sink_log) = <<>> /\ ~agent_said_something)

\* A silent turn has ended with a say_callback set, after an earlier turn in
\* which the agent spoke.
C3_Witness ==
    /\ pc = "idle"
    /\ say_callback
    /\ turn.outcome = "returned"
    /\ turn.spoken = <<>>
    /\ \E i \in 1..Len(turn.before) : turn.before[i].tool_calls # <<>>

\* C4: the history is append-only: every step of set_all_persons,
\* start_conversation and listen, of successful and failed turns alike,
\* leaves the history it found as a prefix of the history it leaves.
C4_AppendOnly ==
    [][ /\ IsPrefix(global_message_history, global_message_history')
        /\ IsPrefix(message_history, message_history') ]_vars

\* The history has grown over two conversations, a turn that extended it and
\* a turn that failed, with the persons set on the way.
C4_Witness ==
    /\ pc = "idle"
    /\ all_persons # <<>>
    /\ ConversationsStarted = 2
    /\ turn.outcome = "generation_failed"
    /\ \E i \in 1..Len(global_message_history) :
           global_message_history[i].type = "tool"

\* The persons of a list, as a set.
Members(names) == {names[i] : i \in 1..Len(names)}

\* C5: after any sequence of start_conversation calls, with listen calls in
\* between, the current conversation id and participants are those of the
\* latest call, and the absent persons are exactly the persons of all_persons
\* that are not among the participants of that call.
C5_ActiveRoomIsLatest ==
    last_start # Nothing =>
        /\ current_conversation_id = last_start.conversation_id
        /\ current_participants = last_start.participants
        /\ Members(Absent(all_persons, current_participants))
               = {p \in Members(all_persons) : p \notin Members(last_start.participants)}

\* Persons Alice and Bob; conversation 2 with Bob alone was started after
\* another conversation and a listen call: Alice is the absent person.
C5_Witness ==
    /\ pc = "idle"
    /\ all_persons = <<"Alice", "Bob">>
    /\ current_conversation_id = 2
    /\ current_participants = <<"Bob">>
    /\ Absent(all_persons, current_participants) = <<"Alice">>
    /\ Len(global_message_history) >= 3
    /\ global_message_history[1].type = "system"
    /\ global_message_history[2].type = "human"
    /\ global_message_history[Len(global_message_history)].type = "system"
    /\ global_message_history[1] # global_message_history[Len(global_message_history)]

\* C6: when invoke raises, also after the backend has called say, listen
\* catches it, calls neither callback in that turn, and leaves the history as
\* it was before the turn plus the user message.
C6_FailedGenerationIsSilent ==
    [][ (TurnEnds /\ turn'.outcome = "generation_failed")
        => /\ sink_log' = <<>>
           /\ History' = Append(turn.before, turn.user)
           /\ turn.user.type = "human" ]_vars

\* invoke raised after the backend had called say with a text, in a turn of
\* the multi-room agent with both callbacks set and a conversation started.
C6_Witness ==
    /\ variant = "multi"
    /\ pc = "idle"
    /\ say_callback
    /\ thoughts_callback
    /\ agent_executor # Nothing
    /\ turn.outcome = "generation_failed"
    /\ turn.spoken # <<>>
    /\ Truthy(pending_message)

\* C7: in the multi-room agent no text passed to thoughts_callback contains
\* the pending message of the turn, wherever the pending message stands in
\* the raw reasoning entry.
C7_ThoughtsHideReply ==
    (variant = "multi" /\ Truthy(pending_message)) =>
        \A i \in 1..Len(sink_log) :
            sink_log[i].sink = "thoughts" =>
                ~Contains(sink_log[i].text, pending_message)

\* C8: the cleaner is idempotent: cleaning a text that the multi-room agent
\* has passed to thoughts_callback again, with the same pending message,
\* gives that text.
C8_CleanIdempotent ==
    variant = "multi" =>
        \A i \in 1..Len(sink_log) :
            sink_log[i].sink = "thoughts" =>
                CleanThoughts(sink_log[i].text, pending_message) = sink_log[i].text

\* C9: a turn whose invoke returns k new entries and whose callbacks return
\* leaves the history it found, followed by the user message, followed by the
\* k entries as the backend produced them; and every invoke is called with
\* the whole history.
C9_HistoryGainsRawEntries ==
    [][ /\ (TurnEnds /\ turn'.outcome = "returned") =>
               /\ \E content \in Contents :
                      History' = Append(turn.before, turn.user) \o generated
                                     \o <<AIMessage(content, <<>>)>>
               /\ Len(History') = Len(turn.before) + 1 + Len(turn'.new_messages)
               /\ Len(turn'.new_messages) = Len(generated) + 1
        /\ (pc = "idle" /\ pc' = "awaiting") =>
               /\ invoke_input' = History'
               /\ IsPrefix(History, invoke_input') ]_vars

\* A second turn has returned three new entries, a say call among them, and
\* the entries of the first turn are in the history it was called with.
C9_Witness ==
    /\ pc = "idle"
    /\ turn.outcome = "returned"
    /\ Len(turn.new_messages) = 3
    /\ \E i \in 1..Len(turn.before) : turn.before[i].type = "ai"
    /\ \E i \in 1..Len(invoke_input) : invoke_input[i].type = "ai"
    /\ History = invoke_input \o turn.new_messages

\* C10: start_conversation with an empty participant list, or with a
\* participant that is not in all_persons, fails: the conversation does not
\* become the current one and no SystemMessage is appended.  (Stated as: a
\* step that appends a SystemMessage makes current a conversation whose
\* participants are a non-empty list of persons of all_persons.)
C10_InvalidRoomRejected ==
    [][ (Len(global_message_history') > Len(global_message_history)
            /\ global_message_history'[Len(global_message_history')].type = "system")
        => /\ current_participants' # <<>>
           /\ \A i \in 1..Len(current_participants') :
                  InList(current_participants'[i], all_persons) ]_vars

\* C11: a message processed by listen before any conversation was started is
\* rejected: no turn begins and the message is not recorded in the history.
\* (Stated as: a step taken while the multi-room agent has no agent_executor
\* yet leaves the agent idle and the history without a HumanMessage.)
C11_ListenWithoutRoomRejected ==
    [][ (variant = "multi" /\ agent_executor = Nothing)
        => /\ pc' = "idle"
           /\ \A i \in 1..Len(global_message_history') :
                  global_message_history'[i].type # "human" ]_vars

\* The places <<conversation, message>> of the file the driver calls listen
\* at: the valid messages of the valid conversations.
ValidPlaces(file) ==
    { <<c, m>> \in (1..Len(file.conversations)) \X (1..MaxHistory) :
        /\ ValidConversation(file.conversations[c])
        /\ m <= Len(file.conversations[c].messages)
        /\ ValidMessage(file.conversations[c].messages[m]) }

\* The places the driver has reported a turn at.
ReportedPlaces ==
    { <<run_log[i].conversation, run_log[i].message>> :
          i \in {j \in 1..Len(run_log) : run_log[j].event \in {"spoke", "silent"}} }

\* C12: every turn started by listen returns to idle when the generation
\* call returns or raises; a turn whose generation failed is reported as
\* silent and does not abort the run: the driver goes on to call listen for
\* every remaining valid message of every remaining valid conversation and
\* completes, and it takes its next step only when the turn has ended.
C12_RunGoesOn ==
    /\ [](pc = "awaiting" => <>(pc = "idle"))
    /\ <>(run_pc = "done" /\ ReportedPlaces = ValidPlaces(data))
    /\ [](\A i \in 1..Len(run_log) :
              run_log[i].outcome \in {"generation_failed", "no_messages"}
                  => run_log[i].event = "silent")
    /\ [](pc = "awaiting" <=> run_pc = "listening")

\* The run is through; the generation of one turn had failed, and the
\* message of a later conversation was processed after it.
C12_Witness ==
    /\ run_pc = "done"
    /\ \E i, j \in 1..Len(run_log) :
          /\ i < j
          /\ run_log[i].outcome = "generation_failed"
          /\ run_log[i].event = "silent"
          /\ run_log[j].event \in {"spoke", "silent"}
          /\ run_log[j].conversation > run_log[i].conversation

\* The headings of the computed parts of the multi-room system prompt.
PromptHeadings ==
    { "All persons across all conversations:",
      "Current conversation participants:",
      "NOT in this conversation:" }

\* The names a prompt text lists under a heading: the elements after the
\* heading, up to the next heading or the end; none if the heading is absent.
ListedUnder(heading, text) ==
    IF ~InList(heading, text) THEN <<>>
    ELSE LET start == CHOOSE i \in 1..Len(text) : text[i] = heading
             stops == {i \in (start + 1)..Len(text) : text[i] \in PromptHeadings}
             stop == IF stops = {} THEN Len(text) + 1
                     ELSE CHOOSE i \in stops : \A j \in stops : i <= j
         IN  SubSeq(text, start + 1, stop - 1)

\* C13: the system prompt built by a start_conversation call lists the whole
\* of all_persons, the participants of the call, and as absentees exactly the
\* persons of all_persons that are not participants, whatever the participant
\* list is (an empty one and one that covers all persons included).
C13_PromptListsRoom ==
    [][ (Len(global_message_history') > Len(global_message_history)
            /\ global_message_history'[Len(global_message_history')].type = "system")
        => LET prompt == agent_executor'.system_prompt
           IN  /\ ListedUnder("All persons across all conversations:",
                              prompt.all_persons_info) = all_persons'
               /\ ListedUnder("Current conversation participants:",
                              prompt.current_participants_info) = current_participants'
               /\ Members(ListedUnder("NOT in this conversation:",
                                      prompt.current_participants_info))
                    = Members(all_persons') \ Members(current_participants') ]_vars

\* C14: at every generation call the system prompt of the agent in effect is
\* the one built from the current conversation and the current all_persons
\* (from the current group members, for the single-room agent), whatever
\* calls of set_all_persons, start_conversation, set_group_members and
\* listen came before.
C14_PromptInEffectIsCurrent ==
    (pc = "awaiting" /\ agent_executor # Nothing)
        => agent_executor.system_prompt
             = IF variant = "multi"
               THEN GetSystemPrompt(all_persons, current_participants)
               ELSE GetSystemPromptSingle(group_members)

\* C15: the generation call of a turn is made with the whole history, of all
\* conversations so far, and the user's message just appended is its last
\* entry; a start_conversation step keeps every entry the history had and
\* adds its SystemMessage, so the entries of an earlier conversation are in
\* the input of every turn of a later one.
C15_WholeHistoryToBackend ==
    [][ /\ (pc = "idle" /\ pc' = "awaiting")
            => /\ invoke_input' = Append(History, turn'.user)
               /\ turn'.user.type = "human"
        /\ (pc' = "awaiting")
            => /\ invoke_input' = History'
               /\ invoke_input'[Len(invoke_input')] = turn'.user
        /\ (last_start' # last_start)
            => /\ Len(global_message_history') = Len(global_message_history) + 1
               /\ IsPrefix(global_message_history, global_message_history')
               /\ global_message_history'[Len(global_message_history')].type = "system" ]_vars

\* A generation call in the second conversation: its input holds the user's
\* message and the agent's entries of the first conversation, between the
\* two SystemMessages, and ends with the user's message of this turn.
C15_Witness ==
    /\ pc = "awaiting"
    /\ agent_executor # Nothing
    /\ \E i, j, k, l \in 1..Len(invoke_input) :
          /\ i < j /\ j < k /\ k < l
          /\ invoke_input[i].type = "system"
          /\ invoke_input[j].type = "human"
          /\ invoke_input[k].type = "ai"
          /\ invoke_input[l].type = "system"
          /\ l < Len(invoke_input)
    /\ invoke_input[Len(invoke_input)] = turn.user

\* The number of reasoning-bearing entries among new_messages: the
\* AIMessages with content.
ReasoningBearing(new_messages) ==
    Cardinality({i \in 1..Len(new_messages) :
                     new_messages[i].type = "ai" /\ new_messages[i].content # <<>>})

\* C16, as the code has it: thoughts_callback is called at most once for
\* each reasoning-bearing entry the generation call returned, so at most as
\* many times in a turn as there are such entries; the texts of several
\* entries are delivered one by one, not merged.
C16_ThoughtsOncePerEntry ==
    Len(ThoughtTexts(sink_log)) <= ReasoningBearing(turn.new_messages)

\* A returned turn with two reasoning-bearing entries, each delivered to
\* thoughts_callback by a call of its own.
C16_Witness ==
    /\ pc = "idle"
    /\ turn.outcome = "returned"
    /\ ReasoningBearing(turn.new_messages) = 2
    /\ Len(ThoughtTexts(sink_log)) = 2

\* C16, as the specification has it: thoughts_callback is called at most
\* once in a turn.
C16_ThoughtsAtMostOnce == Len(ThoughtTexts(sink_log)) <= 1

\* C17: when a turn has ended, every text say_callback was called with in it
\* is recorded in the history, in one of the entries the turn added (the
\* tool call of an AIMessage), and so is part of the input of every later
\* generation call.
C17_SaidIsRecorded ==
    pc = "idle" =>
        \A k \in 1..Len(SaidTexts(sink_log)) :
            \E i \in (Len(turn.before) + 1)..Len(History) :
                /\ History[i].type = "ai"
                /\ InList(SaidTexts(sink_log)[k], History[i].tool_calls)

Boundaries(history) == {i \in 1..Len(history) : history[i].type = "system"}

\* What a context_msg tells: the conversation id as it is printed after
\* "Conversation #", and the names between "Participants: " and the closing
\* line, without the separators.
BoundaryId(content) == content[5]
BoundaryParticipants(content) ==
    SelectSeq(SubSeq(content, 9, Len(content) - 2),
              LAMBDA e : e # "," /\ e # " ")

\* C19: a start_conversation call appends exactly one SystemMessage, which
\* carries the id and the participants of the call, at the end of the
\* history (so before every message of that conversation); no other step
\* changes the current conversation or adds a SystemMessage; and every
\* SystemMessage stays where it is, so that the id and participants of every
\* conversation ever started can be read from the history later.
C19_BoundaryPerConversation ==
    [][ /\ \A i \in Boundaries(global_message_history) :
               /\ i <= Len(global_message_history')
               /\ global_message_history'[i] = global_message_history[i]
        /\ IF Boundaries(global_message_history') = Boundaries(global_message_history)
           THEN /\ current_conversation_id' = current_conversation_id
                /\ current_participants' = current_participants
                /\ last_start' = last_start
           ELSE /\ Boundaries(global_message_history')
                     = Boundaries(global_message_history)
                         \cup {Len(global_message_history) + 1}
                /\ Len(global_message_history') = Len(global_message_history) + 1
                /\ LET content ==
                           global_message_history'[Len(global_message_history')].content
                   IN  /\ BoundaryId(content) = ToString(last_start'.conversation_id)
                       /\ BoundaryParticipants(content) = last_start'.participants
                       /\ current_conversation_id' = last_start'.conversation_id
                       /\ current_participants' = last_start'.participants ]_vars

\* Two conversations were started, the second with other participants, and a
\* message was heard in each: the SystemMessage of the first is still in the
\* history and tells its id and participants.
C19_Witness ==
    /\ pc = "idle"
    /\ \E i, j, k, l \in 1..Len(global_message_history) :
          /\ i < j /\ j < k /\ k < l
          /\ global_message_history[i].type = "system"
          /\ global_message_history[j].type = "human"
          /\ global_message_history[k].type = "system"
          /\ global_message_history[l].type = "human"
          /\ BoundaryId(global_message_history[i].content) = "1"
          /\ BoundaryParticipants(global_message_history[i].content) = <<"Alice", "Bob">>
          /\ BoundaryId(global_message_history[k].content) = "2"
          /\ current_conversation_id = 2

\* The latest SystemMessage of a history that has one.
LatestBoundary(history) ==
    history[CHOOSE i \in Boundaries(history) : \A j \in Boundaries(history) : j <= i]

\* C20: every user message and every entry of the agent is appended to the
\* history behind at least one SystemMessage, and the nearest SystemMessage
\* before it is the one of the conversation that is current when it is
\* appended.
C20_EntriesBelongToCurrent ==
    [][ \A i \in (Len(global_message_history) + 1)..Len(global_message_history') :
            global_message_history'[i].type # "system"
                => /\ Boundaries(global_message_history) # {}
                   /\ BoundaryId(LatestBoundary(global_message_history).content)
                        = ToString(current_conversation_id)
                   /\ BoundaryParticipants(LatestBoundary(global_message_history).content)
                        = current_participants ]_vars

\* C21: a call of the say tool only writes _pending_message and sets
\* agent_said_something: it calls no callback and leaves the history alone,
\* and as long as the generation call is running no callback has been called
\* in the turn; the callbacks are called only after invoke has returned.
C21_SayOnlyWritesPending ==
    [][ /\ (pc' = "awaiting") => sink_log' = <<>>
        /\ (pc = "awaiting" /\ pc' = "awaiting")
            => /\ History' = History
               /\ pending_message' = turn'.spoken[Len(turn'.spoken)]
               /\ agent_said_something'
        /\ (sink_log' # <<>> /\ sink_log' # sink_log)
            => (TurnEnds /\ turn'.outcome \in {"returned", "callback_failed"}) ]_vars

\* The generation call is running, say_callback is set and the say tool has
\* been called with a text, and no callback has been called yet.
C21_Witness ==
    /\ pc = "awaiting"
    /\ say_callback
    /\ turn.spoken # <<>>
    /\ Truthy(pending_message)
    /\ agent_said_something
    /\ sink_log = <<>>

\* C22: in the multi-room agent the thoughts_callback calls of a turn are the
\* cleaned texts of the turn's AIMessages with content, in the order of the
\* entries, those with nothing left after cleaning left out (up to the call
\* that raises, if one does); and no text passed to thoughts_callback is
\* empty or made of whitespace only.
C22_ThoughtsAreCleanedAndNotBlank ==
    [][ (TurnEnds /\ variant = "multi"
            /\ turn'.outcome \in {"returned", "callback_failed"})
        => /\ IsPrefix(ThoughtTexts(sink_log'),
                       ThoughtsMulti(turn'.new_messages, pending_message))
           /\ (turn'.outcome = "returned" /\ thoughts_callback)
                 => ThoughtTexts(sink_log')
                      = ThoughtsMulti(turn'.new_messages, pending_message)
           /\ \A i \in 1..Len(ThoughtTexts(sink_log')) :
                 Strip(ThoughtTexts(sink_log')[i]) # <<>> ]_vars

\* C23: in the multi-room agent a reasoning text is cut from its phase
\* marker on, so that no text passed to thoughts_callback contains a match,
\* under re.IGNORECASE, of any pattern of phase2_patterns.
C23_ThoughtsHaveNoMarker ==
    variant = "multi" =>
        \A i \in 1..Len(ThoughtTexts(sink_log)) :
            \A n \in 1..Len(phase2_patterns) :
                Search(phase2_patterns[n], ThoughtTexts(sink_log)[i]) = -1

\* C24: no step of listen, from its call to its return, whether the turn
\* returns or fails, changes the current conversation id, the current
\* participants, all_persons, the group members or the agent executor with
\* its system prompt.
C24_ListenKeepsRoomAndAgent ==
    [][ (pc = "awaiting" \/ pc' = "awaiting")
        => /\ current_conversation_id' = current_conversation_id
           /\ current_participants' = current_participants
           /\ all_persons' = all_persons
           /\ group_members' = group_members
           /\ agent_executor' = agent_executor ]_vars

\* A listen call has failed in a started conversation of the multi-room
\* agent whose all_persons were set after the start: the agent still has the
\* prompt of the start.
C24_Witness ==
    /\ pc = "idle"
    /\ variant = "multi"
    /\ turn.outcome \in {"generation_failed", "callback_failed"}
    /\ agent_executor # Nothing
    /\ agent_executor.system_prompt # GetSystemPrompt(all_persons, current_participants)

\* The entries a file asks for: for each conversation that has 'participants'
\* and 'messages', its SystemMessage and then the HumanMessage of each of its
\* messages that has 'member' and 'message', in the order of the file.
RECURSIVE WellFormedMessages(_, _)
WellFormedMessages(messages, first) ==
    IF first > Len(messages) THEN <<>>
    ELSE (IF {"member", "message"} \subseteq messages[first].keys
          THEN << HumanMessage(ConversationMessage(messages[first].member,
                                                   messages[first].message)) >>
          ELSE <<>>)
         \o WellFormedMessages(messages, first + 1)

RECURSIVE WellFormedEntries(_, _)
WellFormedEntries(conversations, first) ==
    IF first > Len(conversations) THEN <<>>
    ELSE (IF {"participants", "messages"} \subseteq conversations[first].keys
          THEN << SystemMessage(ContextMsg(
                      IF "conversation_id" \in conversations[first].keys
                      THEN conversations[first].conversation_id ELSE first,
                      conversations[first].participants)) >>
               \o WellFormedMessages(conversations[first].messages, 1)
          ELSE <<>>)
         \o WellFormedEntries(conversations, first + 1)

\* The SystemMessages and HumanMessages of the history, in order.
BoundariesAndUtterances ==
    SelectSeq(global_message_history, LAMBDA e : e.type \in {"system", "human"})

\* C25: the driver skips a message without 'member' or 'message' and a
\* conversation without 'participants' or 'messages': all through the run the
\* SystemMessages and HumanMessages of the history are a beginning of the
\* well-formed entries of the file, in the order of the file, and when the
\* run is through they are exactly those.
C25_OnlyWellFormedEntriesReachAgent ==
    /\ IsPrefix(BoundariesAndUtterances, WellFormedEntries(data.conversations, 1))
    /\ run_pc = "done"
         => BoundariesAndUtterances = WellFormedEntries(data.conversations, 1)

\* The run of a file with a malformed conversation and a malformed message is
\* through, and the well-formed message of the file was heard.
C25_Witness ==
    /\ run_pc = "done"
    /\ \E i \in 1..Len(run_log) : run_log[i].event = "skipped_conversation"
    /\ \E i \in 1..Len(run_log) : run_log[i].event = "skipped_message"
    /\ \E i \in 1..Len(global_message_history) : global_message_history[i].type = "human"

\* The reports of a turn in the driver's log at a place of the file.
TurnReportsAt(log, place) ==
    {i \in 1..Len(log) : /\ log[i].event \in {"spoke", "silent"}
                         /\ <<log[i].conversation, log[i].message>> = place}

\* C26: when agent.listen returns for a message, exactly one outcome is
\* reported for it: the agent's message, by say_callback, if say_callback
\* was called in this turn, and the silent line if it was not, whatever the
\* turn before was like; and when the run is through every valid message of
\* the file has exactly one report.
C26_OneOutcomePerMessage ==
    [][ /\ (run_pc = "listening" /\ run_pc' # "listening")
            => /\ Len(run_log') = Len(run_log) + 1
               /\ IsPrefix(run_log, run_log')
               /\ run_log'[Len(run_log')].conversation = conv_idx
               /\ run_log'[Len(run_log')].message = msg_idx
               /\ run_log'[Len(run_log')].event
                    = IF SaidTexts(sink_log') # <<>> THEN "spoke" ELSE "silent"
        /\ (run_pc' = "done")
            => \A place \in ValidPlaces(data) :
                   Cardinality(TurnReportsAt(run_log', place)) = 1 ]_vars

\* The run is through: the agent spoke in one turn and was reported silent in
\* the next.
C26_Witness ==
    /\ run_pc = "done"
    /\ \E i \in 1..(Len(run_log) - 1) :
          /\ run_log[i].event = "spoke"
          /\ run_log[i + 1].event = "silent"

\* C27: when a callback raises after the generation call has returned, listen
\* returns all the same: the agent is idle again, the history is the one
\* before the turn with the user's message and without the entries the
\* generation returned, the callback that raised is the last one called in
\* the turn, and nothing but the history's new entry, the flags and the
\* pending message differs from before the turn; the next listen call begins
\* as any other, with the flags reset and the whole history as its input.
C27_CallbackFailureEndsTurn ==
    [][ /\ (TurnEnds /\ turn'.outcome = "callback_failed")
            => /\ pc' = "idle"
               /\ History' = Append(turn.before, turn.user)
               /\ turn'.new_messages # <<>>
               /\ sink_log' # <<>>
               /\ IsPrefix(sink_log', SinkCalls(turn'.new_messages, pending_message))
               /\ UNCHANGED << callbackVars, agentVars >>
        /\ (pc = "idle" /\ turn.outcome = "callback_failed" /\ pc' = "awaiting")
            => /\ turn'.before = History
               /\ History' = Append(History, turn'.user)
               /\ invoke_input' = History'
               /\ pending_message' = None
               /\ ~agent_said_something'
               /\ sink_log' = <<>> ]_vars

\* say_callback was not reached in a turn in which the agent had decided to
\* speak, because thoughts_callback raised: listen has returned and the
\* history ends with the user's message.
C27_Witness ==
    /\ pc = "idle"
    /\ turn.outcome = "callback_failed"
    /\ say_callback
    /\ Truthy(pending_message)
    /\ SaidTexts(sink_log) = <<>>
    /\ ThoughtTexts(sink_log) # <<>>
    /\ History = Append(turn.before, turn.user)

(***************************************************************************)
(* The twin run: the multi-room agent hears messages in one conversation,  *)
(* then a single-room agent with the same callbacks hears the same         *)
(* messages from a backend that behaves the same                           *)
(***************************************************************************)

driverVars == << data, run_pc, conv_idx, msg_idx, agent_spoke, run_log >>

InitTwin ==
    /\ InitAgent
    /\ variant = "multi"
    /\ data = NoData
    /\ run_pc = "none"
    /\ conv_idx = 0
    /\ msg_idx = 0
    /\ agent_spoke = FALSE
    /\ run_log = <<>>
    /\ twin = [phase |-> "multi", script |-> <<>>, multi |-> <<>>, single |-> <<>>]

\* What the turn that ends with this step showed: the texts the callbacks
\* were called with, the pending message, and the entries the history gained.
TurnShown ==
    [ said |-> SaidTexts(sink_log'),
      thoughts |-> ThoughtTexts(sink_log'),
      pending |-> pending_message,
      appended |-> SubSeq(History', Len(turn.before) + 1, Len(History')) ]

\* What the backend did in the turn that ends with this step.
TurnScripted(ending, content) ==
    [twin.script[Len(twin.script)] EXCEPT
        !.generated = generated, !.ending = ending, !.content = content]

\* The callbacks both agents are given, set before the conversation starts.
TwinSetCallbacks ==
    /\ twin.phase = "multi"
    /\ global_message_history = <<>>
    /\ set_say_callback \/ set_thoughts_callback
    /\ UNCHANGED runVars

\* The one conversation of the multi-room agent.
TwinConversation == [conversation_id |-> 1, participants |-> <<"Alice", "Bob">>]

TwinStartConversation ==
    /\ twin.phase = "multi"
    /\ global_message_history = <<>>
    /\ start_conversation(TwinConversation.conversation_id, TwinConversation.participants)
    /\ UNCHANGED runVars

\* The number of messages the two agents hear in a twin run.
MaxTwinTurns == 2

TwinListen(who_says, message) ==
    /\ twin.phase = "multi"
    /\ global_message_history # <<>>
    /\ Len(twin.script) < MaxTwinTurns
    /\ ListenBegin(who_says, message)
    /\ twin' = [twin EXCEPT !.script =
                   Append(@, [ who_says |-> who_says, message |-> message,
                               generated |-> <<>>, ending |-> "none",
                               content |-> <<>> ])]
    /\ UNCHANGED driverVars

\* The text the backend passes to the say tool in a twin run, and the
\* contents of the AIMessages it generates: none, a reasoning text that ends
\* with the say text, and the say text behind a space.
TwinSayTexts == { <<"o", "k">> }
TwinContents == Contents \cup { <<" ", "o", "k">> }

TwinAgentCallsSay(content, message) ==
    /\ twin.phase = "multi"
    /\ AgentCallsSay(content, message)
    /\ UNCHANGED runVars

\* The turn of the multi-room agent ends, with callbacks that return.
TwinTurnEnds(ending, content) ==
    /\ twin.phase = "multi"
    /\ turn'.outcome # "callback_failed"
    /\ twin' = [twin EXCEPT !.script[Len(twin.script)] = TurnScripted(ending, content),
                            !.multi = Append(@, TurnShown)]
    /\ UNCHANGED driverVars

TwinGenerationReturns(content) ==
    /\ GenerationReturns(content)
    /\ TwinTurnEnds("returns", content)

TwinGenerationReturnsNoMessages ==
    /\ GenerationReturnsNoMessages
    /\ TwinTurnEnds("no_messages", <<>>)

TwinGenerationRaises ==
    /\ GenerationRaises
    /\ TwinTurnEnds("raises", <<>>)

\* The single-room agent is constructed and given the same callbacks; the
\* history of the multi-room agent is kept for the comparison.
TwinConstructSingle ==
    /\ twin.phase = "multi"
    /\ pc = "idle"
    /\ twin.script # <<>>
    /\ variant' = "single"
    /\ agent_said_something' = FALSE
    /\ pending_message' = None
    /\ group_members' = <<>>
    /\ message_history' = <<>>
    /\ agent_executor' = CreateAgent(GetSystemPromptSingle(<<>>))
    /\ invoke_input' = <<>>
    /\ generated' = <<>>
    /\ sink_log' = <<>>
    /\ turn' = NoTurn
    /\ twin' = [twin EXCEPT !.phase = "single"]
    /\ UNCHANGED << callbackVars, pc, all_persons, current_conversation_id,
                    current_participants, last_start, global_message_history,
                    driverVars >>

\* The turn of the script the single-room agent is at.
TwinStep == twin.script[Len(twin.single) + 1]

TwinReplayListen ==
    /\ twin.phase = "single"
    /\ Len(twin.single) < Len(twin.script)
    /\ ListenBegin(TwinStep.who_says, TwinStep.message)
    /\ UNCHANGED runVars

\* The backend calls say as it did in this turn of the multi-room agent.
TwinReplayAgentCallsSay ==
    /\ twin.phase = "single"
    /\ pc = "awaiting"
    /\ Len(generated) < Len(TwinStep.generated)
    /\ AgentCallsSay(TwinStep.generated[Len(generated) + 1].content,
                     TwinStep.generated[Len(generated) + 1].tool_calls[1])
    /\ UNCHANGED runVars

\* The generation call ends as it did in this turn of the multi-room agent.
TwinReplayTurnEnds ==
    /\ twin.phase = "single"
    /\ pc = "awaiting"
    /\ Len(generated) = Len(TwinStep.generated)
    /\ \/ TwinStep.ending = "returns" /\ GenerationReturns(TwinStep.content)
       \/ TwinStep.ending = "no_messages" /\ GenerationReturnsNoMessages
       \/ TwinStep.ending = "raises" /\ GenerationRaises
    /\ turn'.outcome # "callback_failed"
    /\ twin' = [twin EXCEPT !.single = Append(@, TurnShown)]
    /\ UNCHANGED driverVars

TwinDone ==
    /\ twin.phase = "single"
    /\ pc = "idle"
    /\ Len(twin.single) = Len(twin.script)
    /\ twin' = [twin EXCEPT !.phase = "done"]
    /\ UNCHANGED << objectVars, driverVars >>

NextTwin ==
    \/ TwinSetCallbacks
    \/ TwinStartConversation
    \/ \E who_says \in Speakers, message \in UserTexts : TwinListen(who_says, message)
    \/ \E content \in TwinContents, message \in TwinSayTexts : TwinAgentCallsSay(content, message)
    \/ \E content \in TwinContents : TwinGenerationReturns(content)
    \/ TwinGenerationReturnsNoMessages
    \/ TwinGenerationRaises
    \/ TwinConstructSingle
    \/ TwinReplayListen
    \/ TwinReplayAgentCallsSay
    \/ TwinReplayTurnEnds
    \/ TwinDone

SpecTwin == InitTwin /\ [][NextTwin]_vars

\* The multi-room thoughts the single-room thoughts of a turn clean to.
CleanedThoughts(texts, pending) ==
    SelectSeq([j \in 1..Len(texts) |-> CleanThoughts(texts[j], pending)],
              LAMBDA text : text # <<>>)

====
